---- MODULE Spec2Model ----
(***************************************************************************)
(* Explorer view: the Dispatcher (default export of Explorer/View), the    *)
(* per-entry wrapper ViewItem and the shared ViewContext.                  *)
(*                                                                         *)
(* JavaScript values are modelled with tagged records so that the shape    *)
(* tests of the code (=== null, Array.isArray, truthiness) are operators   *)
(* that can be right or wrong:                                             *)
(*   items     [kind: "null" | "array", arr: sequence of ExplorerItem]     *)
(*   selected  [kind: "absent" | "scalar" | "list", ids: sequence of id]   *)
(*   an id of 0 stands for a null / undefined id (falsy in the code)       *)
(***************************************************************************)
EXTENDS Integers, Sequences, FiniteSets, TLC

\* ------------------------------------------------------------------ bounds
MaxItems == 2
MaxSel == 2
MaxActs == 3

\* ------------------------------------------------------------------ data
LibraryUuid == "lib"

NoFilePath == [found |-> FALSE, id |-> 0, location_id |-> 0]

\* ExplorerItem: { type: 'Path', item: FilePath } | { type: 'Object', item: Object }
\* flattened; file_paths is only meaningful for an Object.
PathItem(id, dir, obj, loc, mp, nm) ==
    [type |-> "Path", id |-> id, is_dir |-> dir, object_id |-> obj,
     location_id |-> loc, materialized_path |-> mp, name |-> nm,
     file_paths |-> <<>>]

ObjectItem(id, fps) ==
    [type |-> "Object", id |-> id, is_dir |-> FALSE, object_id |-> 0,
     location_id |-> 0, materialized_path |-> "", name |-> "",
     file_paths |-> fps]

NoItem ==
    [type |-> "None", id |-> 0, is_dir |-> FALSE, object_id |-> 0,
     location_id |-> 0, materialized_path |-> "", name |-> "",
     file_paths |-> <<>>]

DirItem == PathItem(1, TRUE, 0, 7, "/docs/", "reports")
FileWithObject == PathItem(2, FALSE, 5, 7, "/docs/", "a.txt")
FileNoObject == PathItem(3, FALSE, 0, 8, "/", "b.txt")
ObjectWithPath == ObjectItem(2, <<[found |-> TRUE, id |-> 4, location_id |-> 8]>>)
ObjectNoPath == ObjectItem(1, <<>>)

\* a second file with an object, for views whose requests are followed
OtherFileWithObject == PathItem(4, FALSE, 6, 7, "/docs/", "c.txt")

ItemPool == {DirItem, FileWithObject, FileNoObject, ObjectWithPath, ObjectNoPath}

Ids == {1, 2}

Layouts == {"grid", "rows", "media", "columns"}

\* sequences over S of length at most n
RECURSIVE Seqs(_, _)
Seqs(S, n) ==
    IF n = 0 THEN {<<>>}
    ELSE LET shorter == Seqs(S, n - 1)
         IN shorter \cup
            {Append(s, x) : s \in {t \in shorter : Len(t) = n - 1}, x \in S}

Range(s) == {s[i] : i \in 1..Len(s)}

NullItems == [kind |-> "null", arr |-> <<>>]
ArrayItems(a) == [kind |-> "array", arr |-> a]

\* the collections over a pool: null, or up to MaxItems different items
CollectionsOver(pool) ==
    {NullItems} \cup
    {ArrayItems(a) : a \in {s \in Seqs(pool, MaxItems) :
                              Cardinality(Range(s)) = Len(s)}}

Collections == CollectionsOver(ItemPool)

\* a Path and an Object with the same id, and one more item
ViewPool == {DirItem, FileWithObject, ObjectWithPath}

ViewCollections == CollectionsOver(ViewPool)

Absent == [kind |-> "absent", ids |-> <<>>]
Scalar(n) == [kind |-> "scalar", ids |-> <<n>>]
List(l) == [kind |-> "list", ids |-> l]

Selections ==
    {Absent} \cup {Scalar(n) : n \in Ids} \cup {List(l) : l \in Seqs(Ids, MaxSel)}

\* emptyNotice?: JSX.Element | { icon?: Icon | ReactNode; message?: ReactNode } | null
\* icon: "none" (no icon key), "component" (an Icon component), "element" (a node)
NoticeAbsent == [kind |-> "absent", icon |-> "none", message |-> FALSE]
NoticeNull == [kind |-> "null", icon |-> "none", message |-> FALSE]
NoticeElement == [kind |-> "element", icon |-> "none", message |-> FALSE]
NoticeObject(i, m) == [kind |-> "object", icon |-> i, message |-> m]

EmptyNotices ==
    {NoticeAbsent, NoticeNull, NoticeElement} \cup
    {NoticeObject(i, m) : i \in {"none", "component", "element"}, m \in BOOLEAN}

\* what the double-click handler reads from its hooks besides the item:
\* usePlatform().openFilePath, explorerConfig.openOnDoubleClick, explorerStore.isRenaming
Envs == [openFilePath : BOOLEAN, openOnDoubleClick : BOOLEAN, isRenaming : BOOLEAN]
NoEnv == [openFilePath |-> FALSE, openOnDoubleClick |-> FALSE, isRenaming |-> FALSE]

\* the readings followed where requests are: every gate open, and a rename
\* in progress
OpenEnv == [openFilePath |-> TRUE, openOnDoubleClick |-> TRUE, isRenaming |-> FALSE]
LogEnvs == {OpenEnv, [OpenEnv EXCEPT !.isRenaming = TRUE]}

\* ------------------------------------------------------------------ requests
NavigateReq(lib, loc, path) ==
    [kind |-> "navigate", library |-> lib, location |-> loc, path |-> path, id |-> 0]
UpdateAccessTimeReq(obj) ==
    [kind |-> "updateAccessTime", library |-> "", location |-> 0, path |-> "", id |-> obj]
OpenFilePathReq(lib, fp) ==
    [kind |-> "openFilePath", library |-> lib, location |-> 0, path |-> "", id |-> fp]

\* ------------------------------------------------------------------ ViewItem
\* JavaScript truthiness of an optional id
Truthy(n) == n # 0

isPath(data) == data.type = "Path"

\* a Path item is its own file path; an Object resolves to its first file path
getItemFilePath(data) ==
    IF isPath(data)
    THEN [found |-> TRUE, id |-> data.id, location_id |-> data.location_id]
    ELSE IF Len(data.file_paths) > 0 THEN data.file_paths[1] ELSE NoFilePath

\* onDoubleClick with the rename check forgotten
onDoubleClick_IgnoresRename(data, env) ==
    LET filePath == getItemFilePath(data)
    IN IF isPath(data) /\ data.is_dir
       THEN <<NavigateReq(LibraryUuid, getItemFilePath(data).location_id,
                          data.materialized_path \o data.name \o "/")>>
       ELSE IF env.openFilePath /\ filePath.found /\ env.openOnDoubleClick
            THEN (IF data.type = "Path" /\ Truthy(data.object_id)
                  THEN <<UpdateAccessTimeReq(data.object_id)>>
                  ELSE <<>>)
                 \o <<OpenFilePathReq(LibraryUuid, filePath.id)>>
            ELSE <<>>

\* onDoubleClick with the directory test placed behind the open gates
onDoubleClick_DirBehindGates(data, env) ==
    LET filePath == getItemFilePath(data)
    IN IF /\ env.openFilePath
          /\ filePath.found
          /\ env.openOnDoubleClick
          /\ ~env.isRenaming
       THEN IF isPath(data) /\ data.is_dir
            THEN <<NavigateReq(LibraryUuid, getItemFilePath(data).location_id,
                               data.materialized_path \o data.name \o "/")>>
            ELSE (IF data.type = "Path" /\ Truthy(data.object_id)
                  THEN <<UpdateAccessTimeReq(data.object_id)>>
                  ELSE <<>>)
                 \o <<OpenFilePathReq(LibraryUuid, filePath.id)>>
       ELSE <<>>

\* onDoubleClick without the object_id test before the access-time update
onDoubleClick_AlwaysUpdates(data, env) ==
    LET filePath == getItemFilePath(data)
    IN IF isPath(data) /\ data.is_dir
       THEN <<NavigateReq(LibraryUuid, getItemFilePath(data).location_id,
                          data.materialized_path \o data.name \o "/")>>
       ELSE IF /\ env.openFilePath
               /\ filePath.found
               /\ env.openOnDoubleClick
               /\ ~env.isRenaming
            THEN (IF data.type = "Path"
                  THEN <<UpdateAccessTimeReq(data.object_id)>>
                  ELSE <<>>)
                 \o <<OpenFilePathReq(LibraryUuid, filePath.id)>>
            ELSE <<>>

\* the requests one double click issues, in the order it issues them
onDoubleClick(data, env) ==
    LET filePath == getItemFilePath(data)
    IN IF isPath(data) /\ data.is_dir
       THEN <<NavigateReq(LibraryUuid, getItemFilePath(data).location_id,
                          data.materialized_path \o data.name \o "/")>>
       ELSE IF /\ env.openFilePath
               /\ filePath.found
               /\ env.openOnDoubleClick
               /\ ~env.isRenaming
            THEN (IF data.type = "Path" /\ Truthy(data.object_id)
                  THEN <<UpdateAccessTimeReq(data.object_id)>>
                  ELSE <<>>)
                 \o <<OpenFilePathReq(LibraryUuid, filePath.id)>>
            ELSE <<>>

\* ------------------------------------------------------------------ Dispatcher
\* a length test in place of the shape test
ArrayIsArray_MoreThanOne(sel) == sel.kind = "list" /\ Len(sel.ids) > 1

ArrayIsArray(sel) == sel.kind = "list"

\* Array.isArray(selected) ? selected[0] : selected   (0: undefined)
FirstSelected(sel) ==
    IF ArrayIsArray(sel)
    THEN (IF Len(sel.ids) > 0 THEN sel.ids[1] ELSE 0)
    ELSE (IF sel.kind = "scalar" THEN sel.ids[1] ELSE 0)

\* a search that keeps the last match
RECURSIVE Find_Last(_, _)
Find_Last(arr, want) ==
    IF Len(arr) = 0 THEN NoItem
    ELSE LET rest == Find_Last(Tail(arr), want)
         IN IF rest # NoItem THEN rest
            ELSE IF Head(arr).id = want THEN Head(arr) ELSE NoItem

\* Array.prototype.find: the first element satisfying the test, NoItem if none
RECURSIVE Find(_, _)
Find(arr, want) ==
    IF Len(arr) = 0 THEN NoItem
    ELSE IF Head(arr).id = want THEN Head(arr)
    ELSE Find(Tail(arr), want)

\* a handler that shows the selected item whenever there is one
SpaceHandler_Replaces(its, sel, quickView) ==
    LET selectedItem ==
            IF its.kind = "null" THEN NoItem
            ELSE Find(its.arr, FirstSelected(sel))
    IN [quickView |-> IF selectedItem # NoItem /\ selectedItem # quickView
                      THEN selectedItem ELSE NoItem,
        threw |-> FALSE]

\* a handler that calls items.find without the ?. guard: a TypeError on null
SpaceHandler_NoNullGuard(its, sel, quickView) ==
    IF quickView = NoItem
    THEN IF its.kind = "null"
         THEN [quickView |-> quickView, threw |-> TRUE]
         ELSE LET selectedItem == Find(its.arr, FirstSelected(sel))
              IN [quickView |-> IF selectedItem # NoItem THEN selectedItem
                                ELSE quickView,
                  threw |-> FALSE]
    ELSE [quickView |-> NoItem, threw |-> FALSE]

\* the useKey('Space') handler: the new value of quickViewObject, and whether
\* the handler threw
SpaceHandler(its, sel, quickView) ==
    IF quickView = NoItem
    THEN LET selectedItem ==
                 IF its.kind = "null" THEN NoItem
                 ELSE Find(its.arr, FirstSelected(sel))
         IN [quickView |-> IF selectedItem # NoItem THEN selectedItem ELSE quickView,
             threw |-> FALSE]
    ELSE [quickView |-> NoItem, threw |-> FALSE]

\* a mapping in which two layouts share an icon
LayoutIcon_ColumnsAsRows(lay) ==
    CASE lay = "grid" -> "GridFour"
      [] lay = "media" -> "MonitorPlay"
      [] lay = "columns" -> "Rows"
      [] lay = "rows" -> "Rows"

\* the default icon of emptyNoticeIcon()
LayoutIcon(lay) ==
    CASE lay = "grid" -> "GridFour"
      [] lay = "media" -> "MonitorPlay"
      [] lay = "columns" -> "Columns"
      [] lay = "rows" -> "Rows"

NoContext ==
    [bound |-> FALSE, items |-> NullItems, selected |-> Absent, contextMenu |-> FALSE,
     multiSelect |-> FALSE, selectable |-> FALSE]

NoEmpty == [shown |-> "none", icon |-> "", message |-> ""]

\* a render that takes null for an empty collection
Render_NullIsEmpty(its, lay, notice, sel, menu, isOpen) ==
    IF its.kind = "array" /\ Len(its.arr) > 0
    THEN [branch |-> "provider",
          context |-> [bound |-> TRUE, items |-> its, selected |-> sel,
                       contextMenu |-> menu,
                       multiSelect |-> ArrayIsArray(sel),
                       selectable |-> ~isOpen],
          renderers |-> (IF lay = "grid" THEN {"GridView"} ELSE {}) \cup
                        (IF lay = "rows" THEN {"ListView"} ELSE {}) \cup
                        (IF lay = "media" THEN {"MediaView"} ELSE {}),
          empty |-> NoEmpty]
    ELSE [branch |-> "empty",
          context |-> NoContext,
          renderers |-> {},
          empty |->
             IF notice.kind = "null" THEN NoEmpty
             ELSE IF notice.kind = "element"
             THEN [shown |-> "custom", icon |-> "", message |-> ""]
             ELSE [shown |-> "notice",
                   icon |-> IF notice.kind = "object" /\ notice.icon # "none"
                            THEN (IF notice.icon = "element" THEN "customElement"
                                  ELSE "customIcon")
                            ELSE LayoutIcon(lay),
                   message |-> IF notice.kind = "object" /\ notice.message
                               THEN "customMessage"
                               ELSE "This list is empty"]]

\* a render that gives the columns layout the list renderer
Render_ColumnsAsList(its, lay, notice, sel, menu, isOpen) ==
    IF its.kind = "null" \/ (its.kind = "array" /\ Len(its.arr) > 0)
    THEN [branch |-> "provider",
          context |-> [bound |-> TRUE, items |-> its, selected |-> sel,
                       contextMenu |-> menu,
                       multiSelect |-> ArrayIsArray(sel),
                       selectable |-> ~isOpen],
          renderers |-> (IF lay = "grid" THEN {"GridView"} ELSE {}) \cup
                        (IF lay \in {"rows", "columns"} THEN {"ListView"} ELSE {}) \cup
                        (IF lay = "media" THEN {"MediaView"} ELSE {}),
          empty |-> NoEmpty]
    ELSE [branch |-> "empty",
          context |-> NoContext,
          renderers |-> {},
          empty |->
             IF notice.kind = "null" THEN NoEmpty
             ELSE IF notice.kind = "element"
             THEN [shown |-> "custom", icon |-> "", message |-> ""]
             ELSE [shown |-> "notice",
                   icon |-> IF notice.kind = "object" /\ notice.icon # "none"
                            THEN (IF notice.icon = "element" THEN "customElement"
                                  ELSE "customIcon")
                            ELSE LayoutIcon(lay),
                   message |-> IF notice.kind = "object" /\ notice.message
                               THEN "customMessage"
                               ELSE "This list is empty"]]

\* a render that publishes the flag itself, not its negation
Render_SelectableWhileOpen(its, lay, notice, sel, menu, isOpen) ==
    IF its.kind = "null" \/ (its.kind = "array" /\ Len(its.arr) > 0)
    THEN [branch |-> "provider",
          context |-> [bound |-> TRUE, items |-> its, selected |-> sel,
                       contextMenu |-> menu,
                       multiSelect |-> ArrayIsArray(sel),
                       selectable |-> isOpen],
          renderers |-> (IF lay = "grid" THEN {"GridView"} ELSE {}) \cup
                        (IF lay = "rows" THEN {"ListView"} ELSE {}) \cup
                        (IF lay = "media" THEN {"MediaView"} ELSE {}),
          empty |-> NoEmpty]
    ELSE [branch |-> "empty",
          context |-> NoContext,
          renderers |-> {},
          empty |->
             IF notice.kind = "null" THEN NoEmpty
             ELSE IF notice.kind = "element"
             THEN [shown |-> "custom", icon |-> "", message |-> ""]
             ELSE [shown |-> "notice",
                   icon |-> IF notice.kind = "object" /\ notice.icon # "none"
                            THEN (IF notice.icon = "element" THEN "customElement"
                                  ELSE "customIcon")
                            ELSE LayoutIcon(lay),
                   message |-> IF notice.kind = "object" /\ notice.message
                               THEN "customMessage"
                               ELSE "This list is empty"]]

\* the tree the Dispatcher returns
\* renderers mounted as siblings of the provider instead of inside it
Render_RenderersOutsideProvider(its, lay, notice, sel, menu, isOpen) ==
    IF its.kind = "null" \/ (its.kind = "array" /\ Len(its.arr) > 0)
    THEN [branch |-> "provider",
          context |-> NoContext,
          renderers |-> (IF lay = "grid" THEN {"GridView"} ELSE {}) \cup
                        (IF lay = "rows" THEN {"ListView"} ELSE {}) \cup
                        (IF lay = "media" THEN {"MediaView"} ELSE {}),
          empty |-> NoEmpty]
    ELSE [branch |-> "empty",
          context |-> NoContext,
          renderers |-> {},
          empty |->
             IF notice.kind = "null" THEN NoEmpty
             ELSE IF notice.kind = "element"
             THEN [shown |-> "custom", icon |-> "", message |-> ""]
             ELSE [shown |-> "notice",
                   icon |-> IF notice.kind = "object" /\ notice.icon # "none"
                            THEN (IF notice.icon = "element" THEN "customElement"
                                  ELSE "customIcon")
                            ELSE LayoutIcon(lay),
                   message |-> IF notice.kind = "object" /\ notice.message
                               THEN "customMessage"
                               ELSE "This list is empty"]]

Render(its, lay, notice, sel, menu, isOpen) ==
    IF its.kind = "null" \/ (its.kind = "array" /\ Len(its.arr) > 0)
    THEN [branch |-> "provider",
          context |-> [bound |-> TRUE, items |-> its, selected |-> sel,
                       contextMenu |-> menu,
                       multiSelect |-> ArrayIsArray(sel),
                       selectable |-> ~isOpen],
          renderers |-> (IF lay = "grid" THEN {"GridView"} ELSE {}) \cup
                        (IF lay = "rows" THEN {"ListView"} ELSE {}) \cup
                        (IF lay = "media" THEN {"MediaView"} ELSE {}),
          empty |-> NoEmpty]
    ELSE [branch |-> "empty",
          context |-> NoContext,
          renderers |-> {},
          empty |->
             IF notice.kind = "null" THEN NoEmpty
             ELSE IF notice.kind = "element"
             THEN [shown |-> "custom", icon |-> "", message |-> ""]
             ELSE [shown |-> "notice",
                   icon |-> IF notice.kind = "object" /\ notice.icon # "none"
                            THEN (IF notice.icon = "element" THEN "customElement"
                                  ELSE "customIcon")
                            ELSE LayoutIcon(lay),
                   message |-> IF notice.kind = "object" /\ notice.message
                               THEN "customMessage"
                               ELSE "This list is empty"]]

\* the entries (ViewItem instances) a renderer mounts: one per item
Entries(its, lay) ==
    IF Render(its, lay, NoticeAbsent, Absent, FALSE, FALSE).renderers # {}
    THEN Range(its.arr)
    ELSE {}

\* the requests issued so far are recorded only where a specification follows
\* them: acts are the double clicks, reqs the requests with their activation
LogOff == [on |-> FALSE, acts |-> <<>>, reqs |-> <<>>]
LogOn == [on |-> TRUE, acts |-> <<>>, reqs |-> <<>>]

\* no second Dispatcher
NotMounted == [mounted |-> FALSE, first |-> FALSE, items |-> NullItems,
               selected |-> Absent]

\* ------------------------------------------------------------------ ViewContext
\* useContext(ViewContext): the value of the enclosing Provider, or the default
\* of createContext (null) when there is none
useContext(enclosing, inside) == IF inside THEN enclosing ELSE NoContext

\* a hook that hands out the default instead of failing
useExplorerViewContext_Defaults(ctx) ==
    [threw |-> FALSE, error |-> "", value |-> ctx]

useExplorerViewContext(ctx) ==
    IF ctx = NoContext
    THEN [threw |-> TRUE, error |-> "ViewContext.Provider not found!",
          value |-> NoContext]
    ELSE [threw |-> FALSE, error |-> "", value |-> ctx]

NoRead == [called |-> FALSE, inside |-> FALSE, threw |-> FALSE, error |-> "",
           value |-> NoContext]

\* ------------------------------------------------------------------ state
VARIABLES
    items,              \* contextProps.items
    selected,           \* contextProps.selected
    layout,             \* the layout prop
    emptyNotice,        \* the emptyNotice prop
    contextMenu,        \* contextProps.contextMenu is given
    isContextMenuOpen,  \* the Dispatcher's useState
    quickViewObject,    \* getExplorerStore().quickViewObject
    menuOpen,           \* the mounted entries whose context menu is open
    last,               \* the most recent event and what its handler did
    ctxRead,            \* what useExplorerViewContext gave, if the last event called it
    log,                \* the requests issued so far, when they are recorded
    other               \* a second Dispatcher mounted at the same time, if any

vars == <<items, selected, layout, emptyNotice, contextMenu, isContextMenuOpen,
          quickViewObject, menuOpen, last, ctxRead, log, other>>

Event(op, data, env, issued, threw) ==
    [op |-> op, data |-> data, env |-> env, issued |-> issued, threw |-> threw]

View == Render(items, layout, emptyNotice, selected, contextMenu, isContextMenuOpen)

Mounted == Entries(items, layout)

\* the setter of useState(false)
setIsContextMenuOpen(isOpen) == isOpen

\* ------------------------------------------------------------------ actions
\* a Dispatcher has just mounted: useState(false), no entry menu open yet
JustMounted ==
    /\ isContextMenuOpen = FALSE
    /\ quickViewObject = NoItem
    /\ menuOpen = {}
    /\ last = Event("mount", NoItem, NoEnv, <<>>, FALSE)
    /\ ctxRead = NoRead

\* a re-render that closes the quick view when its item left the collection
SetItems_ClosesQuickView(its) ==
    /\ its # items
    /\ items' = its
    /\ menuOpen' = menuOpen \cap Entries(its, layout)
    /\ quickViewObject' = IF quickViewObject \in Range(its.arr)
                          THEN quickViewObject ELSE NoItem
    /\ last' = Event("props", NoItem, NoEnv, <<>>, FALSE)
    /\ ctxRead' = NoRead
    /\ UNCHANGED <<selected, layout, emptyNotice, contextMenu, isContextMenuOpen,
                   log, other>>

\* the caller re-renders the Dispatcher with another item collection; entries
\* whose item is gone, or whose renderer is gone, unmount without a report
SetItems(its) ==
    /\ its # items
    /\ items' = its
    /\ menuOpen' = menuOpen \cap Entries(its, layout)
    /\ last' = Event("props", NoItem, NoEnv, <<>>, FALSE)
    /\ UNCHANGED <<selected, layout, emptyNotice, contextMenu, isContextMenuOpen,
                   quickViewObject>>
    /\ ctxRead' = NoRead
    /\ UNCHANGED <<log, other>>

SetSelected(sel) ==
    /\ sel # selected
    /\ selected' = sel
    /\ last' = Event("props", NoItem, NoEnv, <<>>, FALSE)
    /\ UNCHANGED <<items, layout, emptyNotice, contextMenu, isContextMenuOpen,
                   quickViewObject, menuOpen>>
    /\ ctxRead' = NoRead
    /\ UNCHANGED <<log, other>>

\* a layout change that also resets the context-menu flag
SetLayout_ResetsFlag(lay) ==
    /\ lay # layout
    /\ layout' = lay
    /\ menuOpen' = {}
    /\ isContextMenuOpen' = FALSE
    /\ last' = Event("props", NoItem, NoEnv, <<>>, FALSE)
    /\ ctxRead' = NoRead
    /\ UNCHANGED <<items, selected, emptyNotice, contextMenu, quickViewObject,
                   log, other>>

\* another layout swaps the renderer: its entries unmount, the new ones mount
SetLayout(lay) ==
    /\ lay # layout
    /\ layout' = lay
    /\ menuOpen' = {}
    /\ last' = Event("props", NoItem, NoEnv, <<>>, FALSE)
    /\ UNCHANGED <<items, selected, emptyNotice, contextMenu, isContextMenuOpen,
                   quickViewObject>>
    /\ ctxRead' = NoRead
    /\ UNCHANGED <<log, other>>

SetEmptyNotice(notice) ==
    /\ notice # emptyNotice
    /\ emptyNotice' = notice
    /\ last' = Event("props", NoItem, NoEnv, <<>>, FALSE)
    /\ UNCHANGED <<items, selected, layout, contextMenu, isContextMenuOpen,
                   quickViewObject, menuOpen>>
    /\ ctxRead' = NoRead
    /\ UNCHANGED <<log, other>>

\* a menu that is never disabled
disabled_Never(explorerView) == FALSE

\* disabled={!explorerView.contextMenu}
disabled(explorerView) == ~explorerView.contextMenu

\* ContextMenu.Root of entry d opens: onOpenChange(true); a disabled menu
\* does not open
OpenMenu(d) ==
    /\ d \in Mounted
    /\ ~disabled(View.context)
    /\ d \notin menuOpen
    /\ menuOpen' = menuOpen \cup {d}
    /\ isContextMenuOpen' = setIsContextMenuOpen(TRUE)
    /\ last' = Event("openMenu", NoItem, NoEnv, <<>>, FALSE)
    /\ UNCHANGED <<items, selected, layout, emptyNotice, contextMenu, quickViewObject>>
    /\ ctxRead' = NoRead
    /\ UNCHANGED <<log, other>>

\* ContextMenu.Root of entry d closes: onOpenChange(false)
CloseMenu(d) ==
    /\ d \in menuOpen
    /\ menuOpen' = menuOpen \ {d}
    /\ isContextMenuOpen' = setIsContextMenuOpen(FALSE)
    /\ last' = Event("closeMenu", NoItem, NoEnv, <<>>, FALSE)
    /\ UNCHANGED <<items, selected, layout, emptyNotice, contextMenu, quickViewObject>>
    /\ ctxRead' = NoRead
    /\ UNCHANGED <<log, other>>

\* the quick-view key
\* one key press: the handler of every mounted Dispatcher runs, in the order
\* the handlers were registered, each on the slot as the one before left it
PressSpace ==
    LET mine(q) == SpaceHandler(items, selected, q)
        theirs(q) == SpaceHandler(other.items, other.selected, q)
        r == IF ~other.mounted THEN mine(quickViewObject)
             ELSE IF other.first
             THEN LET r1 == theirs(quickViewObject)
                      r2 == mine(r1.quickView)
                  IN [quickView |-> r2.quickView, threw |-> r1.threw \/ r2.threw]
             ELSE LET r1 == mine(quickViewObject)
                      r2 == theirs(r1.quickView)
                  IN [quickView |-> r2.quickView, threw |-> r1.threw \/ r2.threw]
    IN /\ quickViewObject' = r.quickView
       /\ last' = Event("space", quickViewObject, NoEnv, <<>>, r.threw)
       /\ UNCHANGED <<items, selected, layout, emptyNotice, contextMenu,
                      isContextMenuOpen, menuOpen>>
       /\ ctxRead' = NoRead
       /\ UNCHANGED <<log, other>>

\* the log after a double click on d under env issued the requests reqs: each
\* request leaves as a detached call, in flight until its collaborator settles it
Recorded(l, d, env, reqs) ==
    IF l.on
    THEN [l EXCEPT !.acts = Append(@, [data |-> d, env |-> env]),
                   !.reqs = @ \o [i \in 1..Len(reqs) |->
                                    [act |-> Len(l.acts) + 1, req |-> reqs[i],
                                     state |-> "inflight"]]]
    ELSE l

\* a handler that skips a request equal to one still in flight
DoubleClick_Deduplicates(d, env) ==
    LET inFlight == {l.req : l \in {log.reqs[i] : i \in
                                       {j \in 1..Len(log.reqs) :
                                          log.reqs[j].state = "inflight"}}}
        IsNew(r) == r \notin inFlight
        issued == SelectSeq(onDoubleClick(d, env), IsNew)
    IN /\ d \in Mounted
       /\ log.on => Len(log.acts) < MaxActs
       /\ last' = Event("doubleClick", d, env, issued, FALSE)
       /\ log' = Recorded(log, d, env, issued)
       /\ UNCHANGED <<items, selected, layout, emptyNotice, contextMenu,
                      isContextMenuOpen, quickViewObject, menuOpen>>
       /\ ctxRead' = NoRead
       /\ UNCHANGED other

\* a double click on the mounted entry of item d
DoubleClick(d, env) ==
    /\ d \in Mounted
    /\ log.on => Len(log.acts) < MaxActs
    /\ last' = Event("doubleClick", d, env, onDoubleClick(d, env), FALSE)
    /\ log' = Recorded(log, d, env, onDoubleClick(d, env))
    /\ UNCHANGED <<items, selected, layout, emptyNotice, contextMenu,
                   isContextMenuOpen, quickViewObject, menuOpen>>
    /\ ctxRead' = NoRead
    /\ UNCHANGED other

\* the collaborator behind request i finishes it, with success or failure;
\* nothing of the view hears of it
Settle(i, outcome) ==
    /\ log.on
    /\ i \in 1..Len(log.reqs)
    /\ log.reqs[i].state = "inflight"
    /\ log' = [log EXCEPT !.reqs[i].state = outcome]
    /\ last' = Event("settle", NoItem, NoEnv, <<>>, FALSE)
    /\ ctxRead' = NoRead
    /\ UNCHANGED <<items, selected, layout, emptyNotice, contextMenu,
                   isContextMenuOpen, quickViewObject, menuOpen, other>>

\* a component calls useExplorerViewContext: a renderer or entry the Dispatcher
\* mounted (inside), or a component rendered under no Dispatcher (outside)
ReadContext(inside) ==
    /\ inside => View.renderers # {}
    /\ LET r == useExplorerViewContext(useContext(View.context, inside))
       IN /\ ctxRead' = [called |-> TRUE, inside |-> inside, threw |-> r.threw,
                         error |-> r.error, value |-> r.value]
          /\ last' = Event("read", NoItem, NoEnv, <<>>, r.threw)
    /\ UNCHANGED <<items, selected, layout, emptyNotice, contextMenu,
                   isContextMenuOpen, quickViewObject, menuOpen, log, other>>

\* the Dispatcher unmounts and a new one mounts with the same props: a new
\* useState(false) and new entries, while the store keeps quickViewObject
Remount ==
    /\ isContextMenuOpen' = FALSE
    /\ menuOpen' = {}
    /\ last' = Event("mount", NoItem, NoEnv, <<>>, FALSE)
    /\ ctxRead' = NoRead
    /\ UNCHANGED <<items, selected, layout, emptyNotice, contextMenu,
                   quickViewObject, log, other>>

\* ------------------------------------------------------------------ specifications
\* The view: the caller changes items, selection and layout while entry menus
\* open and close and the quick-view key is pressed.
Init ==
    /\ items \in ViewCollections
    /\ selected \in Selections
    /\ layout \in Layouts
    /\ emptyNotice = NoticeAbsent
    /\ contextMenu \in BOOLEAN
    /\ JustMounted
    /\ log = LogOff
    /\ other = NotMounted

Next ==
    \/ \E its \in ViewCollections : SetItems(its)
    \/ \E sel \in Selections : SetSelected(sel)
    \/ \E lay \in Layouts : SetLayout(lay)
    \/ \E d \in ItemPool : OpenMenu(d)
    \/ \E d \in ItemPool : CloseMenu(d)
    \/ PressSpace

Spec == Init /\ [][Next]_vars

\* The entries: double clicks on the entries of a view of any item kind, under
\* every combination of what the handler reads, while menus open and close
\* and the quick-view key is pressed.
InitClick ==
    /\ items \in Collections
    /\ selected \in {Absent} \cup {Scalar(n) : n \in Ids}
    /\ layout \in Layouts
    /\ emptyNotice = NoticeAbsent
    /\ contextMenu = TRUE
    /\ JustMounted
    /\ log = LogOff
    /\ other = NotMounted

NextClick ==
    \/ \E d \in ItemPool, env \in Envs : DoubleClick(d, env)
    \/ \E d \in ItemPool : OpenMenu(d)
    \/ \E d \in ItemPool : CloseMenu(d)
    \/ PressSpace

SpecClick == InitClick /\ [][NextClick]_vars

\* The render: every combination of props, re-rendered as props and the
\* context-menu flag change.
InitRender ==
    /\ items \in ViewCollections
    /\ selected \in Selections
    /\ layout \in Layouts
    /\ emptyNotice \in EmptyNotices
    /\ contextMenu \in BOOLEAN
    /\ JustMounted
    /\ log = LogOff
    /\ other = NotMounted

NextRender ==
    \/ \E its \in ViewCollections : SetItems(its)
    \/ \E sel \in Selections : SetSelected(sel)
    \/ \E lay \in Layouts : SetLayout(lay)
    \/ \E notice \in EmptyNotices : SetEmptyNotice(notice)
    \/ \E d \in ItemPool : OpenMenu(d)
    \/ \E d \in ItemPool : CloseMenu(d)

SpecRender == InitRender /\ [][NextRender]_vars

\* The whole view: everything the view and its entries do, over the view pool,
\* with the Dispatcher unmounting and mounting again.
InitFrame ==
    /\ items \in ViewCollections
    /\ selected \in Selections
    /\ layout \in Layouts
    /\ emptyNotice = NoticeAbsent
    /\ contextMenu = TRUE
    /\ JustMounted
    /\ log = LogOff
    /\ other = NotMounted

NextFrame ==
    \/ Next
    \/ \E d \in ViewPool, env \in LogEnvs : DoubleClick(d, env)
    \/ Remount

SpecFrame == InitFrame /\ [][NextFrame]_vars

\* The requests: double clicks on the files of a view while the requests of
\* earlier double clicks are in flight, done or failed.
LogPool == {FileWithObject, OtherFileWithObject}

InitLog ==
    /\ items \in CollectionsOver(LogPool)
    /\ selected = Absent
    /\ layout = "grid"
    /\ emptyNotice = NoticeAbsent
    /\ contextMenu = FALSE
    /\ isContextMenuOpen = FALSE
    /\ quickViewObject = NoItem
    /\ menuOpen = {}
    /\ last = Event("mount", NoItem, NoEnv, <<>>, FALSE)
    /\ ctxRead = NoRead
    /\ log = LogOn
    /\ other = NotMounted

NextLog ==
    \/ \E d \in LogPool, env \in LogEnvs : DoubleClick(d, env)
    \/ \E i \in 1..(2 * MaxActs), outcome \in {"done", "failed"} : Settle(i, outcome)

SpecLog == InitLog /\ [][NextLog]_vars

\* The context: the render as above, with components reading the shared
\* context inside and outside the Dispatcher.
NextContext ==
    \/ NextRender
    \/ \E inside \in BOOLEAN : ReadContext(inside)

SpecContext == InitRender /\ [][NextContext]_vars

\* ------------------------------------------------------------------ claims
\* what the claims say about an item, stated apart from the handler's code
IsDirectory(d) == d.type = "Path" /\ d.is_dir

\* an Object item is a persisted object; a Path item references one by object_id
ReferencesObject(d) == d.type = "Object" \/ (d.type = "Path" /\ d.object_id # 0)
ReferencedObjectId(d) == IF d.type = "Object" THEN d.id ELSE d.object_id

FilePathResolvable(d) == d.type = "Path" \/ Len(d.file_paths) > 0
ResolvedFilePathId(d) == IF d.type = "Path" THEN d.id ELSE d.file_paths[1].id

AllGates(d, env) ==
    /\ env.openFilePath
    /\ FilePathResolvable(d)
    /\ env.openOnDoubleClick
    /\ ~env.isRenaming

\* the first selected id of the claims: 0 when there is none
FirstSelectedId ==
    IF selected.kind = "list"
    THEN (IF selected.ids = <<>> THEN 0 ELSE Head(selected.ids))
    ELSE IF selected.kind = "scalar" THEN Head(selected.ids) ELSE 0

\* the positions of the current collection whose item has the first selected id
Matches ==
    IF items.kind = "null" THEN {}
    ELSE {i \in 1..Len(items.arr) : items.arr[i].id = FirstSelectedId}

\* C1: in every reachable state the published selectable flag is false exactly
\* when at least one entry's context menu is open, and true otherwise.
C1_SelectableIffNoMenuOpen ==
    View.context.bound => (View.context.selectable <=> menuOpen = {})

\* C2: a double click on a non-directory item of any kind that passes the four
\* gates and references a persisted object issues exactly one access-time update
\* for the object's id and then exactly one open-file request for the library
\* and the resolved file-path id.
C2_UpdateThenOpenForAnyKind ==
    (/\ last.op = "doubleClick"
     /\ ~IsDirectory(last.data)
     /\ AllGates(last.data, last.env)
     /\ ReferencesObject(last.data))
    => last.issued = <<UpdateAccessTimeReq(ReferencedObjectId(last.data)),
                       OpenFilePathReq(LibraryUuid, ResolvedFilePathId(last.data))>>

\* C3: a double click on a non-directory item with at least one of the four
\* gates false issues no request, raises no error and leaves the context-menu
\* flag and the quick-view slot as they were.
C3_GatedDoubleClickIsNoOp ==
    [][(/\ last'.op = "doubleClick"
        /\ ~IsDirectory(last'.data)
        /\ ~AllGates(last'.data, last'.env))
       => (/\ last'.issued = <<>>
           /\ ~last'.threw
           /\ isContextMenuOpen' = isContextMenuOpen
           /\ quickViewObject' = quickViewObject)]_vars

C3_Witness ==
    /\ last.op = "doubleClick"
    /\ ~IsDirectory(last.data)
    /\ last.env.openFilePath /\ last.env.openOnDoubleClick /\ last.env.isRenaming
    /\ FilePathResolvable(last.data)
    /\ last.issued = <<>>
    /\ isContextMenuOpen
    /\ quickViewObject # NoItem

\* C4: a double click on a Path item with is_dir true issues exactly one
\* navigation request, to the item's location, with path = materialized_path,
\* name and "/", and nothing else, whatever the four gates are.
C4_DirectoryNavigates ==
    (last.op = "doubleClick" /\ last.data.type = "Path" /\ last.data.is_dir)
    => /\ last.issued =
            <<NavigateReq(LibraryUuid, last.data.location_id,
                          last.data.materialized_path \o last.data.name \o "/")>>
       /\ last.data = DirItem =>
            /\ last.issued[1].location = 7
            /\ last.issued[1].path = "/docs/reports/"

C4_Witness ==
    /\ last.op = "doubleClick"
    /\ last.data = DirItem
    /\ last.env.isRenaming
    /\ ~last.env.openOnDoubleClick
    /\ ~last.env.openFilePath
    /\ Len(last.issued) = 1
    /\ last.issued[1].kind = "navigate"
    /\ last.issued[1].path = "/docs/reports/"

\* C5: the quick-view key pressed with the slot empty and an item of the
\* collection having the first selected id leaves the slot holding the first
\* such item in collection order; later elements of a list selection have no
\* influence.
C5_SpaceShowsFirstMatch ==
    (last.op = "space" /\ last.data = NoItem /\ Matches # {})
    => quickViewObject =
         items.arr[CHOOSE i \in Matches : \A j \in Matches : i <= j]

C5_Witness ==
    /\ last.op = "space"
    /\ last.data = NoItem
    /\ selected = List(<<2, 1>>)
    /\ items = ArrayItems(<<ObjectWithPath, FileWithObject>>)
    /\ quickViewObject = ObjectWithPath

\* C6: the quick-view key pressed with the slot non-empty leaves it empty,
\* whatever the selection, the collection and the held item are.
C6_SpaceClearsHeldItem ==
    (last.op = "space" /\ last.data # NoItem) => quickViewObject = NoItem

C6_Witness ==
    /\ last.op = "space"
    /\ last.data # NoItem
    /\ quickViewObject = NoItem
    /\ items.kind = "array"
    /\ last.data \notin Range(items.arr)
    /\ Matches # {}

\* C7: the quick-view key pressed with the slot empty and no item of the
\* collection having the first selected id is a silent no-op: the slot stays
\* empty, the context-menu flag is unchanged and no error is raised.
C7_SpaceWithoutMatchIsNoOp ==
    [][(last'.op = "space" /\ quickViewObject = NoItem /\ Matches = {})
       => (/\ quickViewObject' = NoItem
           /\ isContextMenuOpen' = isContextMenuOpen
           /\ ~last'.threw)]_vars

C7_Witness ==
    /\ last.op = "space"
    /\ last.data = NoItem
    /\ quickViewObject = NoItem
    /\ items.kind = "null"
    /\ selected.kind = "scalar"

\* C8: the empty-state path is taken exactly when items is a non-null sequence
\* of length 0; with items null no empty state is presented and the renderers
\* mounted are those a non-empty collection gets under the same layout.
C8_EmptyStateOnlyForEmptyArray ==
    /\ View.branch = "empty" <=> (items.kind = "array" /\ Len(items.arr) = 0)
    /\ items.kind = "null" =>
         /\ View.empty.shown = "none"
         /\ \A c \in ViewCollections :
              (c.kind = "array" /\ Len(c.arr) > 0) =>
                 Render(c, layout, emptyNotice, selected, contextMenu,
                        isContextMenuOpen).renderers = View.renderers
         /\ layout = "grid" => View.renderers = {"GridView"}
         /\ layout = "rows" => View.renderers = {"ListView"}
         /\ layout = "media" => View.renderers = {"MediaView"}

C8_Witness ==
    /\ items.kind = "null"
    /\ layout = "rows"
    /\ View.branch = "provider"
    /\ View.renderers = {"ListView"}
    /\ last.op = "props"

\* C9: with items null or non-empty, exactly one renderer is mounted under grid
\* (the grid renderer), rows (the list renderer) and media (the media renderer)
\* and none under columns, where the region is blank and no empty state shows.
C9_OneRendererExceptColumns ==
    (items.kind = "null" \/ Len(items.arr) > 0) =>
        /\ View.renderers =
             (CASE layout = "grid" -> {"GridView"}
                [] layout = "rows" -> {"ListView"}
                [] layout = "media" -> {"MediaView"}
                [] layout = "columns" -> {})
        /\ Cardinality(View.renderers) = (IF layout = "columns" THEN 0 ELSE 1)
        /\ View.empty.shown = "none"
        /\ View.branch # "empty"

C9_Witness ==
    /\ layout = "columns"
    /\ items.kind = "array"
    /\ Len(items.arr) > 0
    /\ View.renderers = {}
    /\ View.empty.shown = "none"
    /\ last.op = "props"

\* C10: the multiSelect flag of the bound context is true exactly when the
\* selection is list-shaped (empty, one element or longer), false for a scalar
\* id and for an absent selection, whatever items, layout and the context-menu
\* flag are.
C10_MultiSelectIffList ==
    \A its \in ViewCollections, lay \in Layouts, isOpen \in BOOLEAN :
        LET r == Render(its, lay, emptyNotice, selected, contextMenu, isOpen)
        IN r.context.bound => (r.context.multiSelect <=> selected.kind = "list")

C10_Witness ==
    /\ View.context.bound
    /\ selected = List(<<>>)
    /\ View.context.multiSelect
    /\ last.op = "props"

\* C11: reading the shared context with no binding active always ends in the
\* error 'ViewContext.Provider not found!' and never gives a defaulted value;
\* reading it while bound gives exactly the bound value.
C11_UnboundReadFails ==
    ctxRead.called =>
        /\ ~ctxRead.inside =>
             /\ ctxRead.threw
             /\ ctxRead.error = "ViewContext.Provider not found!"
             /\ ~ctxRead.value.bound
        /\ ctxRead.inside =>
             /\ ~ctxRead.threw
             /\ ctxRead.value.bound
             /\ ctxRead.value.items = items
             /\ ctxRead.value.selected = selected
             /\ ctxRead.value.contextMenu = contextMenu
             /\ ctxRead.value = View.context

C11_Witness ==
    /\ ctxRead.called
    /\ ~ctxRead.inside
    /\ ctxRead.threw
    /\ View.context.bound

\* C12: with items non-null and empty, a null override renders nothing, a
\* custom node is rendered verbatim, and otherwise the icon is the override's
\* icon if it gives one, else the layout's default icon (four distinct icons),
\* and the message is the override's message if it gives one, else the literal
\* "This list is empty"; an override with only an icon gets the default message
\* and one with only a message gets the layout's default icon.
C12_EmptyStateResolution ==
    (items.kind = "array" /\ Len(items.arr) = 0) =>
        LET defaultIcon == CASE layout = "grid" -> "GridFour"
                             [] layout = "media" -> "MonitorPlay"
                             [] layout = "columns" -> "Columns"
                             [] layout = "rows" -> "Rows"
        IN /\ emptyNotice.kind = "null" => View.empty = NoEmpty
           /\ emptyNotice.kind = "element" => View.empty.shown = "custom"
           /\ emptyNotice.kind \in {"absent", "object"} =>
                /\ View.empty.shown = "notice"
                /\ View.empty.icon =
                     (IF emptyNotice.kind = "object" /\ emptyNotice.icon = "component"
                      THEN "customIcon"
                      ELSE IF emptyNotice.kind = "object" /\ emptyNotice.icon = "element"
                      THEN "customElement"
                      ELSE defaultIcon)
                /\ View.empty.message =
                     (IF emptyNotice.kind = "object" /\ emptyNotice.message
                      THEN "customMessage"
                      ELSE "This list is empty")
           /\ Cardinality({LayoutIcon(lay) : lay \in Layouts}) = Cardinality(Layouts)

C12_Witness ==
    /\ items = ArrayItems(<<>>)
    /\ layout = "columns"
    /\ emptyNotice = NoticeObject("none", TRUE)
    /\ View.empty.shown = "notice"
    /\ View.empty.icon = "Columns"
    /\ View.empty.message = "customMessage"
    /\ last.op = "props"

\* C13: every context the Dispatcher binds has selectable equal to the negation
\* of its context-menu flag as of that render; the flag is false when the
\* Dispatcher mounts, so selectable starts true, and a re-render for other
\* items, selection or layout keeps the flag's value.
C13_SelectableNegatesFlag ==
    /\ ~isContextMenuOpen
    /\ View.context.bound => View.context.selectable
    /\ [](View.context.bound => (View.context.selectable <=> ~isContextMenuOpen))
    /\ [][last'.op = "props" => isContextMenuOpen' = isContextMenuOpen]_vars

C13_Witness ==
    /\ last.op = "props"
    /\ isContextMenuOpen
    /\ View.context.bound
    /\ ~View.context.selectable
    /\ menuOpen # {}

\* a double click of the claims on a file: a Path item that is no directory,
\* has an object and passes the four gates
QualifyingAct(a) ==
    /\ a.data.type = "Path"
    /\ ~a.data.is_dir
    /\ a.data.object_id # 0
    /\ AllGates(a.data, a.env)

\* the requests activation n issued, in the order of the log
RequestsOf(n) ==
    LET OfN(l) == l.act = n
        mine == SelectSeq(log.reqs, OfN)
    IN [i \in 1..Len(mine) |-> mine[i].req]

\* C14: double clicks are never de-duplicated or cancelled: k double clicks on
\* a file that passes the gates and has an object, made while earlier requests
\* are in flight, done or failed, leave exactly k (access-time update, open
\* file) pairs in the log, in activation order, each pair complete before the
\* next begins, and a double click never waits for an earlier request.
C14_IndependentPairs ==
    log.on =>
        LET k == Len(log.acts)
        IN /\ \A n \in 1..k :
                QualifyingAct(log.acts[n]) =>
                    RequestsOf(n) =
                        <<UpdateAccessTimeReq(log.acts[n].data.object_id),
                          OpenFilePathReq(LibraryUuid, log.acts[n].data.id)>>
           /\ \A i, j \in 1..Len(log.reqs) :
                i < j => log.reqs[i].act <= log.reqs[j].act
           /\ (\A n \in 1..k : QualifyingAct(log.acts[n])) =>
                /\ Len(log.reqs) = 2 * k
                /\ \A n \in 1..k :
                     /\ log.reqs[2 * n - 1].act = n
                     /\ log.reqs[2 * n - 1].req.kind = "updateAccessTime"
                     /\ log.reqs[2 * n].act = n
                     /\ log.reqs[2 * n].req.kind = "openFilePath"
           /\ k < MaxActs =>
                \A d \in Mounted : ENABLED DoubleClick(d, OpenEnv)

C14_Witness ==
    /\ log.on
    /\ last.op = "doubleClick"
    /\ Len(log.acts) = 2
    /\ log.acts[1] = log.acts[2]
    /\ QualifyingAct(log.acts[1])
    /\ Len(log.reqs) = 4
    /\ log.reqs[1].state = "failed"
    /\ log.reqs[2].state = "inflight"
    /\ log.reqs[3].state = "inflight"

\* C15: only context-menu open and close reports change the context-menu flag
\* of a mounted Dispatcher: a double click on any branch, a press of the
\* quick-view key and a change of selection, items or layout leave the flag,
\* and with it selectable, as they were.
C15_OnlyMenuReportsChangeFlag ==
    [][/\ last'.op \in {"doubleClick", "space", "props"} =>
            /\ isContextMenuOpen' = isContextMenuOpen
            /\ (View.context.bound /\ View'.context.bound) =>
                  View'.context.selectable = View.context.selectable
       /\ isContextMenuOpen' # isContextMenuOpen =>
            last'.op \in {"openMenu", "closeMenu", "mount"}]_vars

C15_Witness ==
    /\ last.op = "doubleClick"
    /\ last.data = FileWithObject
    /\ Len(last.issued) = 2
    /\ isContextMenuOpen
    /\ View.context.bound
    /\ ~View.context.selectable

\* C19: only the quick-view key handler writes the quick-view slot: changes of
\* selection, items or layout, menu reports, double clicks and the unmounting
\* of the Dispatcher leave it as it was, and the handler fills it only with an
\* item of the collection whose id is the first selected id at that press; so
\* a held item may have left the collection or the selection since.
C19_OnlySpaceWritesSlot ==
    [][/\ quickViewObject' # quickViewObject => last'.op = "space"
       /\ (last'.op = "space" /\ quickViewObject' # NoItem) =>
            /\ quickViewObject = NoItem
            /\ items.kind = "array"
            /\ quickViewObject' \in Range(items.arr)
            /\ quickViewObject'.id = FirstSelectedId]_vars

C19_Witness ==
    /\ last.op = "mount"
    /\ quickViewObject # NoItem
    /\ quickViewObject \notin Range(items.arr)
    /\ quickViewObject.id # FirstSelectedId

\* C16: a double click on a non-directory item that passes the four gates but
\* references no persisted object issues exactly one open-file request, for
\* the library and the resolved file-path id, and no access-time update.
C16_OpenOnlyWithoutObject ==
    (/\ last.op = "doubleClick"
     /\ ~IsDirectory(last.data)
     /\ AllGates(last.data, last.env)
     /\ ~ReferencesObject(last.data))
    => /\ last.issued =
            <<OpenFilePathReq(LibraryUuid, ResolvedFilePathId(last.data))>>
       /\ \A i \in 1..Len(last.issued) : last.issued[i].kind # "updateAccessTime"

C16_Witness ==
    /\ last.op = "doubleClick"
    /\ last.data = FileNoObject
    /\ AllGates(last.data, last.env)
    /\ last.issued = <<OpenFilePathReq("lib", 3)>>

\* C17: an entry's context menu is disabled exactly when the bound context
\* carries no context-menu content; as a disabled menu reports no open, a view
\* whose context carries no menu content keeps the context-menu flag false and
\* selectable true in every reachable state.
C17_NoContentNoMenu ==
    /\ View.context.bound => (disabled(View.context) <=> ~contextMenu)
    /\ ~contextMenu =>
         /\ ~isContextMenuOpen
         /\ menuOpen = {}
         /\ View.context.bound => View.context.selectable

C17_Witness ==
    /\ ~contextMenu
    /\ Mounted # {}
    /\ disabled(View.context)
    /\ View.context.selectable
    /\ last.op = "space"
    /\ quickViewObject # NoItem

\* C20: in every render a renderer is mounted only inside a bound view context
\* and never together with the empty state, so a context read made by a
\* renderer or an entry the Dispatcher mounted never fails with the
\* unbound-context error; and the context is not bound while the empty-state
\* path is taken.
C20_RenderersInsideContext ==
    /\ View.renderers # {} =>
         /\ View.context.bound
         /\ View.branch = "provider"
         /\ View.empty = NoEmpty
    /\ Mounted # {} => View.context.bound
    /\ View.branch = "empty" =>
         /\ ~View.context.bound
         /\ View.renderers = {}
         /\ Mounted = {}
    /\ (ctxRead.called /\ ctxRead.inside) =>
         /\ ~ctxRead.threw
         /\ ctxRead.value = View.context

C20_Witness ==
    /\ ctxRead.called
    /\ ctxRead.inside
    /\ ~ctxRead.threw
    /\ View.renderers # {}
    /\ Mounted # {}
    /\ last.op = "read"

\* a second Dispatcher is mounted with its own items and selection; its
\* useKey('Space') handler is registered before or after the first one's
MountOther(its, sel, first) ==
    /\ ~other.mounted
    /\ other' = [mounted |-> TRUE, first |-> first, items |-> its,
                 selected |-> sel]
    /\ last' = Event("mountOther", NoItem, NoEnv, <<>>, FALSE)
    /\ ctxRead' = NoRead
    /\ UNCHANGED <<items, selected, layout, emptyNotice, contextMenu,
                   isContextMenuOpen, quickViewObject, menuOpen, log>>

\* the second Dispatcher unmounts; the slot is left as it is
UnmountOther ==
    /\ other.mounted
    /\ other' = NotMounted
    /\ last' = Event("unmountOther", NoItem, NoEnv, <<>>, FALSE)
    /\ ctxRead' = NoRead
    /\ UNCHANGED <<items, selected, layout, emptyNotice, contextMenu,
                   isContextMenuOpen, quickViewObject, menuOpen, log>>

\* the props of the second Dispatcher: non-null collections, scalar or absent
\* selection
OtherCollections == {c \in ViewCollections : c.kind = "array"}

OtherSelections == {Absent} \cup {Scalar(n) : n \in Ids}

\* two Dispatchers sharing the quick-view slot
InitTwo ==
    /\ items \in OtherCollections
    /\ selected \in Selections
    /\ layout = "grid"
    /\ emptyNotice = NoticeAbsent
    /\ contextMenu = TRUE
    /\ log = LogOff
    /\ other = NotMounted
    /\ JustMounted

NextTwo ==
    \/ PressSpace
    \/ \E sel \in Selections : SetSelected(sel)
    \/ \E its \in OtherCollections, sel \in OtherSelections, first \in BOOLEAN :
          MountOther(its, sel, first)
    \/ UnmountOther

SpecTwo == InitTwo /\ [][NextTwo]_vars

\* the positions of the second Dispatcher's collection whose item has its
\* first selected id
OtherMatches ==
    {i \in 1..Len(other.items.arr) :
        other.items.arr[i].id = FirstSelected(other.selected)}

\* C18: with two Dispatchers mounted, one key press toggles the slot once: a
\* press that finds the slot empty, with a matching selected item in each
\* instance, leaves the slot holding an item, and a press that finds the slot
\* non-empty leaves it empty.
C18_OnePressTogglesOnce ==
    (last.op = "space" /\ other.mounted) =>
        /\ (last.data = NoItem /\ Matches # {} /\ OtherMatches # {})
              => quickViewObject # NoItem
        /\ last.data # NoItem => quickViewObject = NoItem

====
